---- MODULE Spec2Model ----
(***************************************************************************)
(* Model of thread_scaling/scripts/master.py: the build-artifact resolver, *)
(* the read-set partitioner, the sweep controller and the process          *)
(* supervisor of go().                                                     *)
(*                                                                         *)
(* Spec is the sweep of go() with its supervisor, SpecResolve the resolver  *)
(* loop before it, SpecPrepare one call of prepare_reads step by step.       *)
(*                                                                         *)
(* Time is counted in units of the wrapper's poll interval (time.sleep(1)) *)
(* and restarts at every batch start (ti, line 457).  Steps that take no   *)
(* time are taken before the clock advances; steps that are enabled at the *)
(* same instant interleave in every order.                                 *)
(***************************************************************************)
EXTENDS Integers, Sequences, FiniteSets, TLC

VARIABLES
    configs,          \* the catalog: get_configs(args.config), as a sequence
    series,           \* args.nthread_series, parsed (line 288)
    args,             \* the command-line options go() reads
    aligner,          \* what an aligner child can do here: a set of [dur, code]
    index_files,      \* the files that exist at args.index, as <<extension, suffix>>
    src_reads,        \* the number of reads in the input FASTQ of each mate
    flines,           \* <<file, lines>> for the files under tmpdir, as wcl counts
                      \* them; followed through the steps of prepare_reads
    sl,               \* one call of slice_lab, followed through its loops
    pc,               \* position of the controller in go()
    ri, last, bdirs, rlog,                       \* resolver (lines 241-286)
    si, ci, last_mp_mt, last_blocked, indexes_verified, read_set, redo, idx,
    tmpfiles,         \* read-set files that exist under tmpdir
    sentinels,        \* sentinel files that exist under output_dir
    outfiles,         \* other files written under output_dir / tmpdir
    procs, done_val, exitlevels, jk, deadline, now, telemetry, sinks,
    hist              \* history of the run, for stating the properties

inputs == <<configs, series, args, aligner, index_files, src_reads, flines, sl>>
rvars == <<ri, last, bdirs, rlog>>
cvars == <<si, ci, last_mp_mt, last_blocked, indexes_verified, read_set, redo, idx>>
fvars == <<tmpfiles, sentinels, outfiles>>
svars == <<procs, done_val, exitlevels, jk, deadline, now, telemetry, sinks>>
vars == <<inputs, pc, rvars, cvars, fvars, svars, hist>>

----------------------------------------------------------------------------
(* Bounds of the model *)

\* longest thread-count series
MaxSeries == 2
\* aligner run times are drawn from 0..MaxDur (and Never)
MaxDur == 4

\* most threads of a pair whose reads are prepared step by step
MaxThreads == 4
\* most reads an input FASTQ holds
MaxReads == 8

\* thread counts a series may name
ThreadCounts == {1, 2}
\* --timeout values
Timeouts == {2, 3}
\* a run time no clock of the model reaches: the child never exits by itself
Never == 99

----------------------------------------------------------------------------
(* Values of the program *)

\* Python's None, as last_mp_mt (line 322) and as an exit level (line 469)
None == -1000
\* the exit code of a multiprocessing.Process whose target raised
RAISED == 1

DevNull == <<"", 0, 0, 0, 0, "/dev/null">>

\* run_names[i], line 373: name, mp_mt, i, nthreads, idx_rev (pe_str is fixed
\* for a sweep); a path under odir is a run name and an extension
RunName(name, mp_mt, i, nthreads, idx_rev) == <<name, mp_mt, i, nthreads, idx_rev>>
OutPath(rn, ext) == <<rn[1], rn[2], rn[3], rn[4], rn[5], ext>>

Range(s) == {s[i] : i \in DOMAIN s}

----------------------------------------------------------------------------
(* verify_index, lines 99-111 *)

\* tool_ext, lines 51-57
tool_ext(tool) ==
    IF tool \in {"bowtie2", "hisat"} THEN "bt2" ELSE IF tool = "bowtie" THEN "ebwt" ELSE ""

\* the files verify_index looks for
index_exts(tool) ==
    IF tool = "bwa"
    THEN {<<x, "">> : x \in {".amb", ".ann", ".pac", ".bwt", ".sa"}}
    ELSE {<<x, tool_ext(tool)>> : x \in {".1.", ".2.", ".3.", ".4.", ".rev.1.", ".rev.2."}}
         \cup (IF tool = "hisat"
               THEN {<<x, tool_ext(tool)>> : x \in {".5.", ".6.", ".rev.5.", ".rev.6."}}
               ELSE {})

\* its return value: all of them exist
verify_index(files, tool) == index_exts(tool) \subseteq files

----------------------------------------------------------------------------
(* slice_lab, lines 129-139: base-26 digits, most significant first, padded *)
(* with 'a' (digit 0) to three characters                                   *)

RECURSIVE slice_lab_digits(_, _)
slice_lab_digits(i, ret) ==
    IF i > 0 THEN slice_lab_digits(i \div 26, <<i % 26>> \o ret) ELSE ret

RECURSIVE slice_lab_pad(_)
slice_lab_pad(ret) ==
    IF Len(ret) < 3 THEN slice_lab_pad(<<0>> \o ret) ELSE ret

\* the label when "i /= 26" is the integer division of Python 2
slice_lab(i) == slice_lab_pad(slice_lab_digits(i, <<>>))

\* no call of slice_lab is followed
NoCall == [arg |-> 0, tdiv |-> FALSE, i |-> 0, den |-> 1, ret |-> <<>>, at |-> "idle"]

\* the range slice "1.fq" / "2.fq" of the MT regime has no label
FqLabel == <<>>

\* a read file: the directory join(tmpdir, name, pe_str), the mate, the label
ReadFile(name, mate, lab) == [dir |-> name, mate |-> mate, lab |-> lab]

----------------------------------------------------------------------------
(* prepare_reads, lines 175-210 *)

Mates == IF args.m2 THEN {1, 2} ELSE {1}

nprocess_of(nthreads, mp_mt) == IF mp_mt = 0 THEN 1 ELSE nthreads \div mp_mt

\* the read sets prepare_reads returns
prepare_reads(name, nthreads, mp_mt) ==
    IF mp_mt > 0
    THEN [i \in 1..(nthreads \div mp_mt) |->
            IF args.m2
            THEN <<ReadFile(name, 1, slice_lab(i - 1)), ReadFile(name, 2, slice_lab(i - 1))>>
            ELSE <<ReadFile(name, 1, slice_lab(i - 1))>>]
    ELSE IF args.m2
         THEN << <<ReadFile(name, 1, FqLabel), ReadFile(name, 2, FqLabel)>> >>
         ELSE << <<ReadFile(name, 1, FqLabel)>> >>

\* the files slice_all_fastq / slice_fastq write for it
prepared_files(name, nthreads, mp_mt) ==
    IF mp_mt > 0
    THEN {ReadFile(name, m, slice_lab(i)) : m \in Mates, i \in 0..((nthreads \div mp_mt) - 1)}
    ELSE {ReadFile(name, m, FqLabel) : m \in Mates}

\* line 178: prepare_reads raises for multiprocessing with blocked input
prepare_raises(mp_mt, blocked) == mp_mt > 0 /\ blocked

\* the files of a read set, as the purge loops walk them (lines 349-351, 500-502)
read_set_files(rs) ==
    IF rs = <<>> THEN {} ELSE UNION {Range(rs[i]) : i \in DOMAIN rs}

\* a purge that forgets the second mate of each read list
purge_mate1(files, rs) == files \ {rs[i][1] : i \in DOMAIN rs}

\* what the purge loop removes from the files under tmpdir
purge(files, rs) == files \ read_set_files(rs)

----------------------------------------------------------------------------
(* The sweep controller, lines 288-502 *)

Entry == configs[ci]
nthreads == series[si]
nprocess == nprocess_of(nthreads, Entry.mp_mt)
idx_rev == redo - idx
run_name == RunName(Entry.name, Entry.mp_mt, 0, nthreads, idx_rev)

NoProcs == <<>>
NoSinks == [stdout |-> <<>>, stderr |-> <<>>, sam |-> <<>>]

\* lines 335-339: the index of a tool is verified once; verifying sets redo = 2.
\* The value verify_index returns (line 337) is not used
verified_after(tool, verified) == verified \cup {tool}
redo_after_verify(tool, verified) == IF tool \notin verified THEN 2 ELSE 1

\* the divisibility test with its operands swapped
skip_pair_swapped(n, mp_mt) == mp_mt # 0 /\ mp_mt % n # 0

\* line 341: the pair is skipped
skip_pair(n, mp_mt) == mp_mt # 0 /\ n % mp_mt # 0

\* a test that does not look at the blocked input
needs_prepare_noblock(mp_mt, blocked, l_mp_mt, l_blocked) ==
    l_mp_mt = None \/ mp_mt # l_mp_mt

\* line 345: the read set is purged and prepared again
needs_prepare(mp_mt, blocked, l_mp_mt, l_blocked) ==
    l_mp_mt = None \/ mp_mt # l_mp_mt \/ blocked # l_blocked

\* lines 320-322: next value of the series, or the end of the loop
BeginSeries ==
    /\ pc = "series"
    /\ IF si <= Len(series)
       THEN /\ last_mp_mt' = None
            /\ last_blocked' = FALSE
            /\ ci' = 1
            /\ pc' = "pair"
       ELSE /\ pc' = "final"
            /\ UNCHANGED <<last_mp_mt, last_blocked, ci>>
    /\ UNCHANGED <<inputs, rvars, si, indexes_verified, read_set, redo, idx, fvars, svars, hist>>

\* line 325: the catalog is exhausted for this thread count
EndSeries ==
    /\ pc = "pair"
    /\ ci > Len(configs)
    /\ si' = si + 1
    /\ pc' = "series"
    /\ UNCHANGED <<inputs, rvars, ci, last_mp_mt, last_blocked, indexes_verified, read_set,
                   redo, idx, fvars, svars, hist>>

\* lines 326-342: index verification, then the pair is skipped
SkipPair ==
    /\ pc = "pair"
    /\ ci <= Len(configs)
    /\ skip_pair(nthreads, Entry.mp_mt)
    /\ indexes_verified' = verified_after(Entry.tool, indexes_verified)
    /\ redo' = redo_after_verify(Entry.tool, indexes_verified)
    /\ ci' = ci + 1
    /\ UNCHANGED <<inputs, pc, rvars, si, last_mp_mt, last_blocked, read_set, idx, fvars, svars,
                   hist>>

\* lines 326-351: index verification, then the previous read set is purged
PurgeReads ==
    /\ pc = "pair"
    /\ ci <= Len(configs)
    /\ ~skip_pair(nthreads, Entry.mp_mt)
    /\ needs_prepare(Entry.mp_mt, Entry.blocked, last_mp_mt, last_blocked)
    /\ indexes_verified' = verified_after(Entry.tool, indexes_verified)
    /\ redo' = redo_after_verify(Entry.tool, indexes_verified)
    /\ tmpfiles' = purge(tmpfiles, read_set)
    /\ pc' = "prepare"
    /\ hist' = [hist EXCEPT !.verifiedHere = Entry.tool \notin indexes_verified,
                            !.preparedHere = FALSE,
                            !.changed = (<<Entry.mp_mt, Entry.blocked>> # hist.prev)]
    /\ UNCHANGED <<inputs, rvars, si, ci, last_mp_mt, last_blocked, read_set, idx,
                   sentinels, outfiles, svars>>

\* a prepare that leaves redo as it was
redo_after_prepare_keep(r) == r

\* line 357: preparing the reads sets redo, whatever it was
redo_after_prepare(r) == 2

\* lines 352-360: the Partitioner builds the new read set
PrepareReads ==
    /\ pc = "prepare"
    /\ ~prepare_raises(Entry.mp_mt, Entry.blocked)
    /\ read_set' = prepare_reads(Entry.name, nthreads, Entry.mp_mt)
    /\ tmpfiles' = tmpfiles \cup prepared_files(Entry.name, nthreads, Entry.mp_mt)
    /\ redo' = redo_after_prepare(redo)
    /\ last_mp_mt' = Entry.mp_mt
    /\ last_blocked' = Entry.blocked
    /\ idx' = 0
    /\ pc' = "setup"
    /\ hist' = [hist EXCEPT !.preparedHere = TRUE, !.prev = <<Entry.mp_mt, Entry.blocked>>,
                            !.preparedFor = <<nthreads, Entry.mp_mt, Entry.blocked>>]
    /\ UNCHANGED <<inputs, rvars, si, ci, indexes_verified, sentinels, outfiles, svars>>

\* lines 178-179: prepare_reads raises, go() ends with the error
PrepareFails ==
    /\ pc = "prepare"
    /\ prepare_raises(Entry.mp_mt, Entry.blocked)
    /\ pc' = "aborted"
    /\ UNCHANGED <<inputs, rvars, cvars, fvars, svars, hist>>

\* lines 326-345 and 360-366: the read set of the previous pair is kept
KeepReads ==
    /\ pc = "pair"
    /\ ci <= Len(configs)
    /\ ~skip_pair(nthreads, Entry.mp_mt)
    /\ ~needs_prepare(Entry.mp_mt, Entry.blocked, last_mp_mt, last_blocked)
    /\ indexes_verified' = verified_after(Entry.tool, indexes_verified)
    /\ redo' = redo_after_verify(Entry.tool, indexes_verified)
    /\ last_blocked' = Entry.blocked
    /\ idx' = 0
    /\ pc' = "setup"
    /\ hist' = [hist EXCEPT !.verifiedHere = Entry.tool \notin indexes_verified,
                            !.preparedHere = FALSE,
                            !.changed = (<<Entry.mp_mt, Entry.blocked>> # hist.prev),
                            !.prev = <<Entry.mp_mt, Entry.blocked>>]
    /\ UNCHANGED <<inputs, rvars, si, ci, last_mp_mt, indexes_verified, read_set, fvars, svars>>

----------------------------------------------------------------------------
(* One repetition: lines 368-496 *)

NewProc == [w |-> "new", wake |-> 0, wcode |-> None,
            c |-> "none", cend |-> 0, plan |-> 0, sig |-> FALSE, stop |-> None]

\* a stdout sink that is a file in every repetition
stdout_ofn_always(name, mp_mt, i, n, rev) == OutPath(RunName(name, mp_mt, i, n, rev), "out")

\* lines 373-385: the sinks of worker i (0-based) in a repetition with this idx_rev
stdout_ofn(name, mp_mt, i, n, rev) ==
    IF rev = 1 THEN OutPath(RunName(name, mp_mt, i, n, rev), "out") ELSE DevNull
stderr_ofn(name, mp_mt, i, n, rev) ==
    IF rev = 1 THEN OutPath(RunName(name, mp_mt, i, n, rev), "err") ELSE DevNull
sam_ofn(name, mp_mt, i, n, rev) ==
    IF rev = 1 /\ ~args.sam_dev_null
    THEN OutPath(RunName(name, mp_mt, i, n, rev), "sam") ELSE DevNull

\* lines 481-490: the status sentinel that is touched for these exit levels
status_of(levels) ==
    IF \E k \in DOMAIN levels : levels[k] = None THEN "TIME_OUT"
    ELSE IF \E k \in DOMAIN levels : levels[k] # 0 THEN "FAIL"
    ELSE "SUCCEED"

\* line 368: the repetitions of this pair are over
EndPair ==
    /\ pc = "setup"
    /\ idx >= redo
    /\ ci' = ci + 1
    /\ pc' = "pair"
    /\ UNCHANGED <<inputs, rvars, si, last_mp_mt, last_blocked, indexes_verified, read_set,
                   redo, idx, fvars, svars, hist>>

\* lines 368-457: names and sinks, one Process per worker, the shared flag, the
\* telemetry side-processes and their log files
SetupRep ==
    /\ pc = "setup"
    /\ idx < redo
    /\ sinks' = [stdout |-> [i \in 1..nprocess |->
                                stdout_ofn(Entry.name, Entry.mp_mt, i - 1, nthreads, idx_rev)],
                 stderr |-> [i \in 1..nprocess |->
                                stderr_ofn(Entry.name, Entry.mp_mt, i - 1, nthreads, idx_rev)],
                 sam |-> [i \in 1..nprocess |->
                                sam_ofn(Entry.name, Entry.mp_mt, i - 1, nthreads, idx_rev)]]
    /\ procs' = [i \in 1..nprocess |-> NewProc]
    /\ done_val' = 0
    /\ exitlevels' = <<>>
    /\ outfiles' = outfiles \cup {OutPath(run_name, "iostat"), OutPath(run_name, "top")}
    /\ telemetry' = TRUE
    /\ now' = 0
    /\ jk' = 1
    /\ deadline' = 0
    /\ pc' = "start"
    /\ hist' = [hist EXCEPT !.written = {}]
    /\ UNCHANGED <<inputs, rvars, cvars, tmpfiles, sentinels>>

\* a start loop that is left after its first proc
started_all_first(k, n) == k >= 1

\* the loop of line 458 has started its last proc
started_all(k, n) == k >= n

\* lines 458-459: proc.start() for the next worker; after the last one the first
\* proc.join(args.timeout) begins.  args.dry_run is read by the message of line 311
\* only
StartProc ==
    /\ pc = "start"
    /\ procs' = [procs EXCEPT ![jk].w = "open"]
    /\ hist' = [hist EXCEPT !.written = @ \cup {"START"}]
    /\ IF ~started_all(jk, Len(procs))
       THEN /\ jk' = jk + 1
            /\ UNCHANGED <<pc, deadline>>
       ELSE /\ jk' = 1
            /\ deadline' = now + args.timeout
            /\ pc' = "join"
    /\ UNCHANGED <<inputs, rvars, cvars, fvars, done_val, exitlevels, now, telemetry, sinks>>

\* line 392: the executable join(build_dir, tool_exe(tool)) is there, build_dir
\* being the working copy itself or a link to one
RECURSIVE real_dir(_, _)
real_dir(dirs, name) ==
    IF name \in DOMAIN dirs /\ dirs[name].kind = "link"
    THEN real_dir(dirs, dirs[name].target) ELSE name

has_exe(dirs, name) ==
    LET r == real_dir(dirs, name)
    IN  r \in DOMAIN dirs /\ dirs[r].kind = "dir" /\ dirs[r].exe # ""

\* the files the wrapper opens for writing (line 413 for bwa, line 435 otherwise)
worker_ofn(i) == IF Entry.tool = "bwa" THEN sinks.sam[i] ELSE sinks.stdout[i]
worker_efn(i) == sinks.stderr[i]

\* lines 389-392: the wrapper opens its sinks and starts the aligner, which runs
\* for b.dur and would exit with b.code; the aligner creates its -S file
WorkerPopen(i) ==
    /\ procs[i].w = "open"
    /\ has_exe(bdirs, Entry.name)
    /\ \E b \in aligner :
          procs' = [procs EXCEPT ![i].w = "poll", ![i].c = "running",
                                 ![i].cend = IF b.dur = Never THEN Never ELSE now + b.dur,
                                 ![i].plan = b.code]
    /\ outfiles' = outfiles \cup ({worker_ofn(i), worker_efn(i), sinks.sam[i]} \ {DevNull})
    /\ UNCHANGED <<inputs, pc, rvars, cvars, tmpfiles, sentinels, done_val, exitlevels, jk,
                   deadline, now, telemetry, sinks, hist>>

\* line 392: Popen raises (no executable at build_dir), the wrapper process ends
\* with the exit code of an uncaught exception
WorkerPopenFails(i) ==
    /\ procs[i].w = "open"
    /\ ~has_exe(bdirs, Entry.name)
    /\ procs' = [procs EXCEPT ![i].w = "done", ![i].wcode = RAISED]
    /\ outfiles' = outfiles \cup ({worker_ofn(i), worker_efn(i)} \ {DevNull})
    /\ UNCHANGED <<inputs, pc, rvars, cvars, tmpfiles, sentinels, done_val, exitlevels, jk,
                   deadline, now, telemetry, sinks, hist>>

\* the wrapper after "while proc.poll() is None" (line 393): the target returns,
\* exit code 0, when the child has ended; else it sleeps one interval (line 394)
after_poll(p, t) ==
    IF p.c = "exited"
    THEN [p EXCEPT !.w = "done", !.wcode = 0]
    ELSE [p EXCEPT !.w = "sleep", !.wake = t + 1]

\* a wrapper that does not look at the flag
after_sleep_noflag(p, flag, t) == [p EXCEPT !.w = "poll"]

\* a wrapper that leaves the loop on the flag without signalling its child
after_sleep_nokill(p, flag, t) ==
    IF flag > 0 THEN [p EXCEPT !.w = "done", !.wcode = 0] ELSE [p EXCEPT !.w = "poll"]

\* the wrapper after the sleep (lines 395-397): with the flag set it sends
\* SIGTERM and leaves the loop, the target returns; else it polls again
after_sleep(p, flag, t) ==
    IF flag > 0
    THEN [p EXCEPT !.w = "done", !.wcode = 0, !.sig = TRUE,
                   !.c = IF p.c = "running" THEN "signaled" ELSE p.c,
                   !.stop = IF p.c = "running" THEN t ELSE p.stop]
    ELSE [p EXCEPT !.w = "poll"]

WorkerPoll(i) ==
    /\ procs[i].w = "poll"
    /\ procs' = [procs EXCEPT ![i] = after_poll(procs[i], now)]
    /\ UNCHANGED <<inputs, pc, rvars, cvars, fvars, done_val, exitlevels, jk, deadline, now,
                   telemetry, sinks, hist>>

WorkerWake(i) ==
    /\ procs[i].w = "sleep"
    /\ now >= procs[i].wake
    /\ procs' = [procs EXCEPT ![i] = after_sleep(procs[i], done_val, now)]
    /\ UNCHANGED <<inputs, pc, rvars, cvars, fvars, done_val, exitlevels, jk, deadline, now,
                   telemetry, sinks, hist>>

\* the aligner child ends by itself
ChildExit(i) ==
    /\ procs[i].c = "running"
    /\ now >= procs[i].cend
    /\ procs' = [procs EXCEPT ![i].c = "exited", ![i].stop = now]
    /\ UNCHANGED <<inputs, pc, rvars, cvars, fvars, done_val, exitlevels, jk, deadline, now,
                   telemetry, sinks, hist>>

\* a child that was sent SIGTERM ends some time later; nothing waits for it
ChildDies(i) ==
    /\ procs[i].c = "signaled"
    /\ procs' = [procs EXCEPT ![i].c = "dead"]
    /\ UNCHANGED <<inputs, pc, rvars, cvars, fvars, done_val, exitlevels, jk, deadline, now,
                   telemetry, sinks, hist>>

\* the loop of line 461 goes on to the next proc, or ends
join_next(k, n) == IF k < n THEN "join" ELSE "joined"

\* lines 462-463, 470-471: the wrapper ended within the wait
JoinReturn ==
    /\ pc = "join"
    /\ procs[jk].w = "done"
    /\ exitlevels' = Append(exitlevels, procs[jk].wcode)
    /\ pc' = join_next(jk, Len(procs))
    /\ jk' = jk + 1
    /\ deadline' = now + args.timeout
    /\ UNCHANGED <<inputs, rvars, cvars, fvars, procs, done_val, now, telemetry, sinks, hist>>

\* lines 462-466: the wait expired with the wrapper alive; the flag is set
JoinExpire ==
    /\ pc = "join"
    /\ procs[jk].w # "done"
    /\ now >= deadline
    /\ done_val' = 1
    /\ pc' = "joinall"
    /\ UNCHANGED <<inputs, rvars, cvars, fvars, procs, exitlevels, jk, deadline, now,
                   telemetry, sinks, hist>>

\* a join-all that waits for the first proc only
all_joined_first(ps) == ps[1].w = "done"

\* the unbounded joins of lines 467-468 have all returned
all_joined(ps) == \A i \in DOMAIN ps : ps[i].w = "done"

\* lines 467-469
JoinAll ==
    /\ pc = "joinall"
    /\ all_joined(procs)
    /\ exitlevels' = Append(exitlevels, None)
    /\ pc' = join_next(jk, Len(procs))
    /\ jk' = jk + 1
    /\ deadline' = now + args.timeout
    /\ UNCHANGED <<inputs, rvars, cvars, fvars, procs, done_val, now, telemetry, sinks, hist>>

\* lines 472-479
KillTelemetry ==
    /\ pc = "joined"
    /\ telemetry' = FALSE
    /\ pc' = "mark"
    /\ UNCHANGED <<inputs, rvars, cvars, fvars, procs, done_val, exitlevels, jk, deadline,
                   now, sinks, hist>>

\* line 480
RecordJoin ==
    /\ pc = "mark"
    /\ sentinels' = sentinels \cup {OutPath(run_name, "JOIN")}
    /\ pc' = "classify"
    /\ hist' = [hist EXCEPT !.written = @ \cup {"JOIN"}]
    /\ UNCHANGED <<inputs, rvars, cvars, tmpfiles, outfiles, svars>>

\* lines 481-490
Classify ==
    /\ pc = "classify"
    /\ sentinels' = sentinels \cup {OutPath(run_name, status_of(exitlevels))}
    /\ pc' = IF status_of(exitlevels) = "FAIL" /\ args.stop_on_fail THEN "aborted" ELSE "cleanup"
    /\ hist' = [hist EXCEPT !.written = @ \cup {status_of(exitlevels)}]
    /\ UNCHANGED <<inputs, rvars, cvars, tmpfiles, outfiles, svars>>

\* the SAM files line 496 removes
sam_outputs == Range(sinks.sam) \ {DevNull}

\* lines 492-496, then the next repetition; os.remove raises for a missing file
EndRep ==
    /\ pc = "cleanup"
    /\ IF args.delete_sam /\ ~(sam_outputs \subseteq outfiles)
       THEN /\ pc' = "aborted"
            /\ UNCHANGED <<idx, outfiles>>
       ELSE /\ outfiles' = IF args.delete_sam THEN outfiles \ sam_outputs ELSE outfiles
            /\ idx' = idx + 1
            /\ pc' = "setup"
    /\ UNCHANGED <<inputs, rvars, si, ci, last_mp_mt, last_blocked, indexes_verified, read_set,
                   redo, tmpfiles, sentinels, svars, hist>>

\* lines 498-502: the purge at the end of the sweep
FinalPurge ==
    /\ pc = "final"
    /\ tmpfiles' = purge(tmpfiles, read_set)
    /\ pc' = "done"
    /\ UNCHANGED <<inputs, rvars, cvars, sentinels, outfiles, svars, hist>>

\* something is due at this instant
Due ==
    \/ \E i \in DOMAIN procs :
          \/ procs[i].w \in {"open", "poll"}
          \/ procs[i].w = "sleep" /\ now >= procs[i].wake
          \/ procs[i].c = "running" /\ now >= procs[i].cend
    \/ pc = "join" /\ (procs[jk].w = "done" \/ now >= deadline)
    \/ pc = "joinall" /\ all_joined(procs)

\* time passes while the Supervisor waits in a join; the clock of a repetition
\* stays below Never
Tick ==
    /\ pc \in {"join", "joinall"}
    /\ ~Due
    /\ now < Never
    /\ now' = now + 1
    /\ UNCHANGED <<inputs, pc, rvars, cvars, fvars, procs, done_val, exitlevels, jk, deadline,
                   telemetry, sinks, hist>>

----------------------------------------------------------------------------
(* Inputs and initial states of the sweep (go() from line 288 on) *)

EntryOf(name, mp_mt, blocked) ==
    [name |-> name, tool |-> "bowtie", branch |-> "b1", preproc |-> "f1",
     mp_mt |-> mp_mt, blocked |-> blocked]

\* threadsPerProcess, 'block-bytes' in the aligner arguments, executable present
EntryKinds ==
    {<<0, FALSE, TRUE>>, <<0, TRUE, TRUE>>, <<2, FALSE, TRUE>>, <<2, TRUE, TRUE>>,
     <<0, FALSE, FALSE>>}

Names == <<"A", "B", "C">>

CatalogOf(kinds) ==
    [i \in DOMAIN kinds |-> EntryOf(Names[i], kinds[i][1], kinds[i][2])]

\* the build directories the resolver left for such a catalog: a working copy
\* each, with or without the executable
BuildDirsOf(kinds) ==
    [n \in {Names[i] : i \in DOMAIN kinds} |->
        LET k == CHOOSE i \in DOMAIN kinds : Names[i] = n
        IN  [kind |-> "dir", target |-> "", src |-> "b1",
             exe |-> IF kinds[k][3] THEN "f1" ELSE ""]]

\* every catalog of one or two entries, and those of three entries whose middle
\* entry has two threads per process
CatalogKinds ==
    [1..1 -> EntryKinds] \cup [1..2 -> EntryKinds]
    \cup {<<a, <<2, FALSE, TRUE>>, b>> :
             a \in {<<0, FALSE, TRUE>>, <<2, FALSE, TRUE>>},
             b \in {<<0, FALSE, TRUE>>, <<0, TRUE, TRUE>>}}

SeriesSet == UNION {[1..k -> ThreadCounts] : k \in 1..MaxSeries}

DefaultArgs ==
    [timeout |-> 2, stop_on_fail |-> FALSE, m2 |-> FALSE, delete_sam |-> FALSE,
     sam_dev_null |-> FALSE, force_builds |-> FALSE, pull |-> FALSE,
     reads_per_thread |-> 1, dry_run |-> FALSE]

\* the option sets of the sweeps
ArgProfiles ==
    {DefaultArgs,
     [DefaultArgs EXCEPT !.stop_on_fail = TRUE],
     [DefaultArgs EXCEPT !.m2 = TRUE],
     [DefaultArgs EXCEPT !.delete_sam = TRUE],
     [DefaultArgs EXCEPT !.sam_dev_null = TRUE],
     [DefaultArgs EXCEPT !.dry_run = TRUE]}

Fast == [dur |-> 0, code |-> 0]
Hang == [dur |-> Never, code |-> 0]
Behaviours == {[dur |-> d, code |-> c] : d \in (0..MaxDur) \cup {Never}, c \in {0, 1}}

\* the index of the tool, complete or with its last file missing
IndexStates == {index_exts("bowtie"), index_exts("bowtie") \ {<<".rev.2.", "ebwt">>}}

\* inputs long enough for every series of the sweep (lines 306-309)
NoReads == [m \in {1, 2} |-> MaxReads]

NoLast == [name |-> "", tool |-> "", branch |-> "", preproc |-> "", build_dir |-> ""]
NoHist == [verifiedHere |-> FALSE, preparedHere |-> FALSE, changed |-> FALSE,
           prev |-> <<None, FALSE>>, written |-> {}, makeFailed |-> FALSE,
           preparedFor |-> <<0, None, FALSE>>]

\* the state at line 288, the binaries being set up
SweepStart ==
    /\ pc = "series"
    /\ ri = 0 /\ last = NoLast /\ rlog = <<>>
    /\ si = 1 /\ ci = 1 /\ last_mp_mt = None /\ last_blocked = FALSE
    /\ indexes_verified = {} /\ read_set = <<>> /\ redo = 1 /\ idx = 0
    /\ tmpfiles = {} /\ sentinels = {} /\ outfiles = {}
    /\ procs = NoProcs /\ done_val = 0 /\ exitlevels = <<>> /\ jk = 1 /\ deadline = 0
    /\ now = 0 /\ telemetry = FALSE /\ sinks = NoSinks
    /\ src_reads = NoReads /\ flines = {} /\ sl = NoCall
    /\ hist = NoHist

\* one entry with one thread per process: a worker group of every size, every
\* timeout, every behaviour of the aligner children
InitGroup ==
    /\ configs = CatalogOf(<< <<1, FALSE, TRUE>> >>)
    /\ bdirs = BuildDirsOf(<< <<1, FALSE, TRUE>> >>)
    /\ series \in [1..1 -> ThreadCounts]
    /\ args \in {[DefaultArgs EXCEPT !.timeout = t] : t \in Timeouts}
    /\ aligner = Behaviours
    /\ index_files = index_exts("bowtie")

\* every catalog and series, the aligner children all quick or all hanging
InitSweep ==
    /\ \E ks \in CatalogKinds : configs = CatalogOf(ks) /\ bdirs = BuildDirsOf(ks)
    /\ series \in SeriesSet
    /\ args \in ArgProfiles
    /\ aligner \in {{Fast}, {Hang}}
    /\ index_files \in IndexStates

\* a series that names one thread count twice, for one entry whose aligner ends
\* at once or never
InitRepeat ==
    /\ configs = CatalogOf(<< <<0, FALSE, TRUE>> >>)
    /\ bdirs = BuildDirsOf(<< <<0, FALSE, TRUE>> >>)
    /\ \E n \in ThreadCounts : series = <<n, n>>
    /\ args = DefaultArgs
    /\ aligner = {Fast, Hang}
    /\ index_files = index_exts("bowtie")

Init == SweepStart /\ (InitGroup \/ InitSweep \/ InitRepeat)


Next ==
    \/ BeginSeries
    \/ EndSeries
    \/ SkipPair
    \/ PurgeReads
    \/ PrepareReads
    \/ PrepareFails
    \/ KeepReads
    \/ EndPair
    \/ SetupRep
    \/ StartProc
    \/ \E i \in DOMAIN procs : WorkerPopen(i)
    \/ \E i \in DOMAIN procs : WorkerPopenFails(i)
    \/ \E i \in DOMAIN procs : WorkerPoll(i)
    \/ \E i \in DOMAIN procs : WorkerWake(i)
    \/ \E i \in DOMAIN procs : ChildExit(i)
    \/ \E i \in DOMAIN procs : ChildDies(i)
    \/ JoinReturn
    \/ JoinExpire
    \/ JoinAll
    \/ KillTelemetry
    \/ RecordJoin
    \/ Classify
    \/ EndRep
    \/ FinalPurge
    \/ Tick

Spec == Init /\ [][Next]_vars

----------------------------------------------------------------------------
(* The sweep of one entry with one thread per process, under fair          *)
(* scheduling: the controller is a sequential program that takes its next   *)
(* step, each wrapper is a process that is scheduled again and again, a     *)
(* child whose run time is over exits, and time goes by.  Nothing is        *)
(* assumed of a child that was sent SIGTERM.                                *)

\* the worker indices of the largest group
WorkerIds == 1..2

\* a child that runs as long as the model lets one run, and fails
Slow == [dur |-> MaxDur, code |-> 1]

ControllerStep ==
    \/ BeginSeries \/ EndSeries \/ PurgeReads \/ PrepareReads \/ EndPair \/ SetupRep
    \/ StartProc \/ JoinReturn \/ JoinExpire \/ JoinAll \/ KillTelemetry \/ RecordJoin
    \/ Classify \/ EndRep \/ FinalPurge

WrapperStep(i) ==
    /\ i \in DOMAIN procs
    /\ (WorkerPopen(i) \/ WorkerPopenFails(i) \/ WorkerPoll(i) \/ WorkerWake(i))

ChildEnds(i) == i \in DOMAIN procs /\ ChildExit(i)

InitLive ==
    /\ SweepStart
    /\ \E exe \in BOOLEAN :
          /\ configs = CatalogOf(<< <<1, FALSE, exe>> >>)
          /\ bdirs = BuildDirsOf(<< <<1, FALSE, exe>> >>)
    /\ series \in [1..1 -> ThreadCounts]
    /\ args \in {[DefaultArgs EXCEPT !.timeout = t] : t \in Timeouts}
    /\ aligner = {Fast, Slow, Hang}
    /\ index_files = index_exts("bowtie")

NextLive ==
    \/ BeginSeries
    \/ EndSeries
    \/ PurgeReads
    \/ PrepareReads
    \/ EndPair
    \/ SetupRep
    \/ StartProc
    \/ \E i \in DOMAIN procs : WorkerPopen(i)
    \/ \E i \in DOMAIN procs : WorkerPopenFails(i)
    \/ \E i \in DOMAIN procs : WorkerPoll(i)
    \/ \E i \in DOMAIN procs : WorkerWake(i)
    \/ \E i \in DOMAIN procs : ChildExit(i)
    \/ \E i \in DOMAIN procs : ChildDies(i)
    \/ JoinReturn
    \/ JoinExpire
    \/ JoinAll
    \/ KillTelemetry
    \/ RecordJoin
    \/ Classify
    \/ EndRep
    \/ FinalPurge
    \/ Tick

Fairness ==
    /\ WF_vars(ControllerStep)
    /\ \A i \in WorkerIds : WF_vars(WrapperStep(i)) /\ WF_vars(ChildEnds(i))
    /\ WF_vars(Tick)

SpecLive == InitLive /\ [][NextLive]_vars /\ Fairness

----------------------------------------------------------------------------
(* prepare_reads step by step, lines 142-210: the slicing commands by what   *)
(* they write, the line counts wcl reads back, the checks on the files.  The *)
(* pair is the first of its thread count, so the reads are prepared.         *)

Min(a, b) == IF a < b THEN a ELSE b

\* a process count that leaves out the threads per process
nreads_per_process_flat(rpt, nthread, nproc) == rpt

\* line 182
nreads_per_process(rpt, nthread, nproc) == (rpt * nthread) \div nproc

\* wcl, lines 122-126; wc fails for a file that is not there
wcl(fl, f) == IF \E q \in fl : q[1] = f THEN (CHOOSE q \in fl : q[1] = f)[2] ELSE None

\* a command writes files: a file of the same name is replaced
written_over(fl, new) == {q \in fl : \A r \in new : r[1] # q[1]} \cup new

\* lines 148-150: head passes the first reads_per * n reads of the input, split
\* writes them to files of reads_per reads each, labelled aaa, aab, ...
split_files(name, mate, reads_per, n, avail) ==
    LET total == Min(avail, reads_per * n)
        k == (total + reads_per - 1) \div reads_per
    IN  {<<ReadFile(name, mate, slice_lab(i)), 4 * Min(reads_per, total - i * reads_per)>> :
            i \in 0..(k - 1)}

\* split -l 0 is an error: the command returns non-zero (line 153)
split_fails(reads_per) == reads_per = 0

\* lines 155-160
sanity_all(fl, name, mate, reads_per, n) ==
    \A i \in 0..(n - 1) : wcl(fl, ReadFile(name, mate, slice_lab(i))) = reads_per * 4

\* line 164: sed -n '1,(4*nreads)p;(4*nreads+1)q'; the range 1,0 is line 1
sed_lines(avail, nreads) == IF nreads = 0 THEN Min(4 * avail, 1) ELSE 4 * Min(avail, nreads)

\* lines 187-199: the files of every process are there and the next label is not
files_as_expected(fl, name, n) ==
    /\ \A i \in 0..(n - 1) : \A m \in Mates : wcl(fl, ReadFile(name, m, slice_lab(i))) # None
    /\ wcl(fl, ReadFile(name, 1, slice_lab(n))) = None

\* lines 184-186 and 204-206: the slice command for one mate and its sanity check
SliceReads(mate) ==
    /\ pc = IF mate = 1 THEN "prepare" ELSE "slice2"
    /\ ~prepare_raises(Entry.mp_mt, Entry.blocked)
    /\ LET n == nprocess_of(nthreads, Entry.mp_mt)
           per == nreads_per_process(args.reads_per_thread, nthreads, n)
           nreads == args.reads_per_thread * nthreads
           after == IF Entry.mp_mt > 0
                    THEN IF split_fails(per) THEN flines
                         ELSE written_over(flines,
                                  split_files(Entry.name, mate, per, n, src_reads[mate]))
                    ELSE written_over(flines,
                             {<<ReadFile(Entry.name, mate, FqLabel),
                                sed_lines(src_reads[mate], nreads)>>})
           sane == IF Entry.mp_mt > 0
                   THEN ~split_fails(per) /\ sanity_all(after, Entry.name, mate, per, n)
                   ELSE wcl(after, ReadFile(Entry.name, mate, FqLabel)) = nreads * 4
       IN  /\ flines' = after
           /\ tmpfiles' = {q[1] : q \in after}
           /\ pc' = IF ~sane THEN "aborted"
                    ELSE IF mate = 1 /\ args.m2 THEN "slice2" ELSE "exists"
    /\ UNCHANGED <<configs, series, args, aligner, index_files, src_reads, sl, rvars, cvars,
                   sentinels, outfiles, svars, hist>>

\* lines 187-199 and 207-210, then lines 357-366 of go()
PrepareReturns ==
    /\ pc = "exists"
    /\ IF Entry.mp_mt > 0
          /\ ~files_as_expected(flines, Entry.name, nprocess_of(nthreads, Entry.mp_mt))
       THEN /\ pc' = "aborted"
            /\ UNCHANGED <<cvars, hist>>
       ELSE /\ read_set' = prepare_reads(Entry.name, nthreads, Entry.mp_mt)
            /\ redo' = redo_after_prepare(redo)
            /\ last_mp_mt' = Entry.mp_mt
            /\ last_blocked' = Entry.blocked
            /\ idx' = 0
            /\ pc' = "setup"
            /\ hist' = [hist EXCEPT !.preparedHere = TRUE,
                                    !.prev = <<Entry.mp_mt, Entry.blocked>>,
                                    !.preparedFor = <<nthreads, Entry.mp_mt, Entry.blocked>>]
            /\ UNCHANGED <<si, ci, indexes_verified>>
    /\ UNCHANGED <<inputs, rvars, fvars, svars>>

\* files an interrupted earlier run can have left in the directory of the reads,
\* one read each
StaleFiles(name, m2) ==
    {<<ReadFile(name, 1, slice_lab(1)), 4>>, <<ReadFile(name, 1, slice_lab(2)), 4>>}
    \cup (IF m2 THEN {<<ReadFile(name, 2, slice_lab(1)), 4>>} ELSE {})

\* the lengths of an input FASTQ: empty, short, long
SrcReads == {0, 3, MaxReads}

\* the state at line 325 for the first entry of the catalog: every thread count,
\* regime, reads per thread and input
InitPrepare ==
    /\ pc = "pair"
    /\ \E m \in 0..2, b \in BOOLEAN :
          configs = CatalogOf(<< <<m, b, TRUE>> >>) /\ bdirs = BuildDirsOf(<< <<m, b, TRUE>> >>)
    /\ series \in [1..1 -> 1..MaxThreads]
    /\ args \in {[DefaultArgs EXCEPT !.m2 = p, !.reads_per_thread = r] :
                    p \in BOOLEAN, r \in 0..2}
    /\ aligner = {Fast}
    /\ index_files = index_exts("bowtie")
    /\ src_reads \in [{1, 2} -> SrcReads]
    /\ flines \in SUBSET StaleFiles("A", args.m2)
    /\ sl = NoCall
    /\ tmpfiles = {q[1] : q \in flines}
    /\ ri = 0 /\ last = NoLast /\ rlog = <<>>
    /\ si = 1 /\ ci = 1 /\ last_mp_mt = None /\ last_blocked = FALSE
    /\ indexes_verified = {} /\ read_set = <<>> /\ redo = 1 /\ idx = 0
    /\ sentinels = {} /\ outfiles = {}
    /\ procs = NoProcs /\ done_val = 0 /\ exitlevels = <<>> /\ jk = 1 /\ deadline = 0
    /\ now = 0 /\ telemetry = FALSE /\ sinks = NoSinks
    /\ hist = NoHist

NextPrepare ==
    \/ SkipPair
    \/ PurgeReads
    \/ PrepareFails
    \/ \E mate \in {1, 2} : SliceReads(mate)
    \/ PrepareReturns

SpecPrepare == InitPrepare /\ [][NextPrepare]_vars

----------------------------------------------------------------------------
(* slice_lab step by step, lines 129-139.  "i /= 26" (line 135) is the       *)
(* integer division under Python 2 and the true division under Python 3,     *)
(* where i becomes the float sl.i / sl.den; a string index has to be an      *)
(* integer.  Letters are the digits 0..25.                                   *)

\* the labels of three letters
LabelSpace == 26 * 26 * 26

\* lines 131-135: one turn of the first loop, i > 0
SliceLabDigit ==
    /\ sl.at = "digits"
    /\ sl.i > 0
    /\ sl' = IF sl.den # 1
             THEN [sl EXCEPT !.at = "raised"]
             ELSE IF sl.tdiv
             THEN [sl EXCEPT !.ret = <<sl.i % 26>> \o @, !.den = 26]
             ELSE [sl EXCEPT !.ret = <<sl.i % 26>> \o @, !.i = sl.i \div 26]
    /\ UNCHANGED <<configs, series, args, aligner, index_files, src_reads, flines, pc, rvars,
                   cvars, fvars, svars, hist>>

\* lines 136-137: one turn of the second loop
SliceLabPad ==
    /\ sl.at = "pad" \/ (sl.at = "digits" /\ sl.i = 0)
    /\ Len(sl.ret) < 3
    /\ sl' = [sl EXCEPT !.ret = <<0>> \o @, !.at = "pad"]
    /\ UNCHANGED <<configs, series, args, aligner, index_files, src_reads, flines, pc, rvars,
                   cvars, fvars, svars, hist>>

\* lines 138-139: the assertion and the return
SliceLabReturn ==
    /\ sl.at = "pad" \/ (sl.at = "digits" /\ sl.i = 0)
    /\ Len(sl.ret) >= 3
    /\ sl' = [sl EXCEPT !.at = IF Len(sl.ret) = 3 THEN "done" ELSE "raised"]
    /\ UNCHANGED <<configs, series, args, aligner, index_files, src_reads, flines, pc, rvars,
                   cvars, fvars, svars, hist>>

\* a call slice_lab(i) for every index that has a label of three letters, under
\* either division
InitLabel ==
    /\ \E i \in 0..(LabelSpace - 1), d \in BOOLEAN :
          sl = [arg |-> i, tdiv |-> d, i |-> i, den |-> 1, ret |-> <<>>, at |-> "digits"]
    /\ pc = "prepare"
    /\ configs = CatalogOf(<< <<1, FALSE, TRUE>> >>)
    /\ bdirs = BuildDirsOf(<< <<1, FALSE, TRUE>> >>)
    /\ series = <<1>> /\ args = DefaultArgs /\ aligner = {Fast}
    /\ index_files = index_exts("bowtie")
    /\ src_reads = NoReads /\ flines = {} /\ tmpfiles = {}
    /\ ri = 0 /\ last = NoLast /\ rlog = <<>>
    /\ si = 1 /\ ci = 1 /\ last_mp_mt = None /\ last_blocked = FALSE
    /\ indexes_verified = {} /\ read_set = <<>> /\ redo = 1 /\ idx = 0
    /\ sentinels = {} /\ outfiles = {}
    /\ procs = NoProcs /\ done_val = 0 /\ exitlevels = <<>> /\ jk = 1 /\ deadline = 0
    /\ now = 0 /\ telemetry = FALSE /\ sinks = NoSinks
    /\ hist = NoHist

NextLabel ==
    \/ SliceLabDigit
    \/ SliceLabPad
    \/ SliceLabReturn

SpecLabel == InitLabel /\ [][NextLabel]_vars

----------------------------------------------------------------------------
(* The resolver, lines 241-286.  A build directory is missing, a working copy  *)
(* ("dir": src is the branch it holds, exe the flags its executable was built  *)
(* with, "" when there is no executable) or a symbolic link to the directory   *)
(* of another entry.                                                            *)

REntry == configs[ri]

MissingDir == [kind |-> "missing", target |-> "", src |-> "", exe |-> ""]

\* os.path.exists(build_dir), which follows links
path_exists(dirs, name) ==
    LET r == real_dir(dirs, name)
    IN  r \in DOMAIN dirs /\ dirs[r].kind = "dir"

\* a build decision that does not look at the directory
wants_build_always(dirs, name) == TRUE

\* lines 251-260: build and pull
wants_build(dirs, name) == (path_exists(dirs, name) /\ args.force_builds) \/ ~path_exists(dirs, name)
wants_pull(dirs, name) == path_exists(dirs, name) /\ ~args.force_builds

\* lines 253-256: shutil.rmtree(build_dir) of --force
after_force(dirs, name) ==
    IF path_exists(dirs, name) /\ args.force_builds
    THEN [dirs EXCEPT ![name] = MissingDir] ELSE dirs

\* a comparison for the link that leaves out the build flags
same_build_noflags(e, l) == e.tool = l.tool /\ e.branch = l.branch

\* line 267 and line 272: what the entry shares with the previous one
same_build(e, l) == e.tool = l.tool /\ e.branch = l.branch /\ e.preproc = l.preproc
same_source(e, l) == e.tool = l.tool /\ e.branch = l.branch

\* what os.system returns for make (line 65): 0, or the status of an exit code 2
MakeRets == {0, 512}

\* a make_tool_version that takes every return for a success
make_raises_never(ret) == FALSE

\* line 66
make_raises(ret) == ret # 0

\* make_tool_version in build_dir: the executable of that working copy is built
\* with these flags
after_make(dirs, name, flags) ==
    [dirs EXCEPT ![real_dir(dirs, name)].exe = flags]

\* line 271: ln -s -f last_name build_dir
after_link(dirs, name, l) ==
    [dirs EXCEPT ![name] = [kind |-> "link", target |-> l.name, src |-> "", exe |-> ""]]

\* line 276: cp -r last_build_dir build_dir.  A source that is a symbolic link is
\* copied as a link (deref = FALSE, what cp -r does where it does not follow
\* links) or as the directory it names (deref = TRUE)
after_copy(dirs, name, l, deref) ==
    IF dirs[l.build_dir].kind = "link" /\ ~deref
    THEN [dirs EXCEPT ![name] = dirs[l.build_dir]]
    ELSE [dirs EXCEPT ![name] = dirs[real_dir(dirs, l.build_dir)]]

\* line 277: os.remove of the executable in build_dir
after_remove_exe(dirs, name) == [dirs EXCEPT ![real_dir(dirs, name)].exe = ""]

\* lines 72-79: git clone of the branch into build_dir
after_clone(dirs, name, branch) ==
    [dirs EXCEPT ![name] = [kind |-> "dir", target |-> "", src |-> branch, exe |-> ""]]

LastOf(e) ==
    [name |-> e.name, tool |-> e.tool, branch |-> e.branch, preproc |-> e.preproc,
     build_dir |-> e.name]

\* lines 248-249: the first entry sets last_tool
last_tool_now == IF last.tool = "" THEN REntry.tool ELSE last.tool
LastNow == [last EXCEPT !.tool = last_tool_now]

Logged(act, made, fetched) ==
    Append(rlog, [name |-> REntry.name, act |-> act, made |-> made, fetched |-> fetched])

Resolving == pc = "resolve" /\ ri <= Len(configs)

\* line 250: the assertion on the tool fails
ResolveAssertFails ==
    /\ Resolving
    /\ REntry.tool # last_tool_now
    /\ pc' = "aborted"
    /\ UNCHANGED <<inputs, rvars, cvars, fvars, svars, hist>>

\* line 255: shutil.rmtree raises for a symbolic link
ResolveRmtreeRaises ==
    /\ Resolving
    /\ REntry.tool = last_tool_now
    /\ path_exists(bdirs, REntry.name) /\ args.force_builds
    /\ bdirs[REntry.name].kind = "link"
    /\ pc' = "aborted"
    /\ UNCHANGED <<inputs, rvars, cvars, fvars, svars, hist>>

\* the entry gets past lines 250-260
Decided ==
    /\ Resolving
    /\ REntry.tool = last_tool_now
    /\ ~(path_exists(bdirs, REntry.name) /\ args.force_builds /\ bdirs[REntry.name].kind = "link")

\* lines 262-266: git pull and make in the existing working copy
ResolvePull ==
    /\ Decided
    /\ wants_pull(bdirs, REntry.name) /\ args.pull
    /\ \E ret \in MakeRets :
          /\ IF ~make_raises(ret)
             THEN /\ bdirs' = after_make(bdirs, REntry.name, REntry.preproc)
                  /\ last' = LastOf(REntry)
                  /\ ri' = ri + 1
                  /\ UNCHANGED pc
             ELSE /\ pc' = "aborted"
                  /\ UNCHANGED <<bdirs, last, ri>>
          /\ hist' = [hist EXCEPT !.makeFailed = (ret # 0)]
    /\ rlog' = Logged("pull", TRUE, FALSE)
    /\ UNCHANGED <<inputs, cvars, fvars, svars>>

\* the existing directory is taken as it is: no branch of lines 262-282 applies
ResolveKeep ==
    /\ Decided
    /\ wants_pull(bdirs, REntry.name) /\ ~args.pull
    /\ last' = LastOf(REntry)
    /\ ri' = ri + 1
    /\ rlog' = Logged("keep", FALSE, FALSE)
    /\ UNCHANGED <<inputs, pc, bdirs, cvars, fvars, svars, hist>>

\* lines 267-271
ResolveLink ==
    /\ Decided
    /\ wants_build(bdirs, REntry.name)
    /\ same_build(REntry, LastNow)
    /\ bdirs' = after_link(after_force(bdirs, REntry.name), REntry.name, LastNow)
    /\ last' = LastOf(REntry)
    /\ ri' = ri + 1
    /\ rlog' = Logged("link", FALSE, FALSE)
    /\ UNCHANGED <<inputs, pc, cvars, fvars, svars, hist>>

\* lines 272-278: copy, removal of the executable (os.remove raises when there is
\* none), make
ResolveCopy ==
    /\ Decided
    /\ wants_build(bdirs, REntry.name)
    /\ ~same_build(REntry, LastNow) /\ same_source(REntry, LastNow)
    /\ \E deref \in BOOLEAN, ret \in MakeRets :
          LET copied == after_copy(after_force(bdirs, REntry.name), REntry.name, LastNow, deref)
          IN  IF ~has_exe(copied, REntry.name)
              THEN /\ bdirs' = copied
                   /\ pc' = "aborted"
                   /\ rlog' = Logged("copy", FALSE, FALSE)
                   /\ UNCHANGED <<last, ri, hist>>
              ELSE IF ~make_raises(ret)
              THEN /\ bdirs' = after_make(after_remove_exe(copied, REntry.name),
                                          REntry.name, REntry.preproc)
                   /\ last' = LastOf(REntry)
                   /\ ri' = ri + 1
                   /\ rlog' = Logged("copy", TRUE, FALSE)
                   /\ hist' = [hist EXCEPT !.makeFailed = (ret # 0)]
                   /\ UNCHANGED pc
              ELSE /\ bdirs' = after_remove_exe(copied, REntry.name)
                   /\ pc' = "aborted"
                   /\ rlog' = Logged("copy", TRUE, FALSE)
                   /\ hist' = [hist EXCEPT !.makeFailed = (ret # 0)]
                   /\ UNCHANGED <<last, ri>>
    /\ UNCHANGED <<inputs, cvars, fvars, svars>>

\* lines 279-282: install_tool_version, a clone and a make
ResolveFetch ==
    /\ Decided
    /\ wants_build(bdirs, REntry.name)
    /\ ~same_source(REntry, LastNow)
    /\ \E cloned \in BOOLEAN, ret \in MakeRets :
          LET fetched == after_clone(after_force(bdirs, REntry.name), REntry.name, REntry.branch)
          IN  IF ~cloned
              THEN /\ bdirs' = after_force(bdirs, REntry.name)
                   /\ pc' = "aborted"
                   /\ rlog' = Logged("fetch", FALSE, TRUE)
                   /\ UNCHANGED <<last, ri, hist>>
              ELSE IF ~make_raises(ret)
              THEN /\ bdirs' = after_make(fetched, REntry.name, REntry.preproc)
                   /\ last' = LastOf(REntry)
                   /\ ri' = ri + 1
                   /\ rlog' = Logged("fetch", TRUE, TRUE)
                   /\ hist' = [hist EXCEPT !.makeFailed = (ret # 0)]
                   /\ UNCHANGED pc
              ELSE /\ bdirs' = fetched
                   /\ pc' = "aborted"
                   /\ rlog' = Logged("fetch", TRUE, TRUE)
                   /\ hist' = [hist EXCEPT !.makeFailed = (ret # 0)]
                   /\ UNCHANGED <<last, ri>>
    /\ UNCHANGED <<inputs, cvars, fvars, svars>>

\* lines 285-288: the binaries are set up, the sweep begins
ResolveDone ==
    /\ pc = "resolve"
    /\ ri > Len(configs)
    /\ pc' = "series"
    /\ UNCHANGED <<inputs, rvars, cvars, fvars, svars, hist>>

BuildEntry(name, tool, branch, preproc) ==
    [name |-> name, tool |-> tool, branch |-> branch, preproc |-> preproc,
     mp_mt |-> 0, blocked |-> FALSE]

\* three entries, the first of branch b1 with flags f1, the tool of the last one
\* possibly another
BuildCatalogs ==
    {<<BuildEntry("A", "bowtie", "b1", "f1"),
       BuildEntry("B", "bowtie", b2, p2),
       BuildEntry("C", t3, b3, p3)>> :
        b2 \in {"b1", "b2"}, p2 \in {"f1", "f2"},
        t3 \in {"bowtie", "bowtie2"}, b3 \in {"b1", "b2"}, p3 \in {"f1", "f2"}}

\* what an earlier run can have left for entry i of a catalog
DirStates(cat, i) ==
    {MissingDir,
     [kind |-> "dir", target |-> "", src |-> cat[i].branch, exe |-> cat[i].preproc],
     [kind |-> "dir", target |-> "", src |-> cat[i].branch, exe |-> ""]}
    \cup (IF i > 1 THEN {[kind |-> "link", target |-> cat[i - 1].name, src |-> "", exe |-> ""]}
          ELSE {})

\* the state at line 241
InitResolve ==
    /\ pc = "resolve"
    /\ configs \in BuildCatalogs
    /\ series = <<1>>
    /\ args \in {[DefaultArgs EXCEPT !.force_builds = f, !.pull = u] : f \in BOOLEAN, u \in BOOLEAN}
    /\ aligner = {Fast}
    /\ index_files = index_exts(configs[1].tool)
    /\ \E d1 \in DirStates(configs, 1), d2 \in DirStates(configs, 2), d3 \in DirStates(configs, 3) :
          bdirs = [n \in {"A", "B", "C"} |-> IF n = "A" THEN d1 ELSE IF n = "B" THEN d2 ELSE d3]
    /\ ri = 1 /\ last = NoLast /\ rlog = <<>>
    /\ si = 1 /\ ci = 1 /\ last_mp_mt = None /\ last_blocked = FALSE
    /\ indexes_verified = {} /\ read_set = <<>> /\ redo = 1 /\ idx = 0
    /\ tmpfiles = {} /\ sentinels = {} /\ outfiles = {}
    /\ procs = NoProcs /\ done_val = 0 /\ exitlevels = <<>> /\ jk = 1 /\ deadline = 0
    /\ now = 0 /\ telemetry = FALSE /\ sinks = NoSinks
    /\ src_reads = NoReads /\ flines = {} /\ sl = NoCall
    /\ hist = NoHist

NextResolve ==
    \/ ResolveAssertFails
    \/ ResolveRmtreeRaises
    \/ ResolvePull
    \/ ResolveKeep
    \/ ResolveLink
    \/ ResolveCopy
    \/ ResolveFetch
    \/ ResolveDone

SpecResolve == InitResolve /\ [][NextResolve]_vars

----------------------------------------------------------------------------
(* Properties *)

Statuses == {"SUCCEED", "FAIL", "TIME_OUT"}

\* the controller is inside a repetition, its workers created
InRep == pc \in {"start", "join", "joinall", "joined", "mark", "classify", "cleanup"}

\* the status sentinel of the current repetition has been written
Classified == hist.written \cap Statuses # {}

\* C1: if some worker's child ran longer than the timeout, counted from the batch
\* start, the repetition's status is TIME_OUT and neither SUCCEED nor FAIL is written.
C1_SlowWorkerTimesOut ==
    (Classified /\ \E i \in DOMAIN procs : procs[i].stop # None /\ procs[i].stop > args.timeout)
        => hist.written \cap Statuses = {"TIME_OUT"}

\* C2: once the flag is set, the Supervisor goes on past the joins only when every
\* wrapper has ended, and every child has then ended by itself or been sent the
\* termination signal by its wrapper.
C2_GroupKill ==
    /\ pc = "joinall" => done_val > 0
    /\ (done_val > 0 /\ pc \in {"joined", "mark", "classify", "cleanup"}) =>
          \A i \in DOMAIN procs :
             /\ procs[i].w = "done"
             /\ procs[i].c \in {"exited", "none"} \/ procs[i].sig

C2_Witness ==
    /\ pc = "classify" /\ done_val > 0 /\ Len(procs) = 2
    /\ \A i \in DOMAIN procs : procs[i].sig /\ procs[i].c \in {"signaled", "dead"}
    /\ \E i \in DOMAIN procs : procs[i].cend # Never

\* C3: the JOIN marker of a repetition is written only when every worker has been
\* joined, and it is there whenever the controller has left the start-and-join
\* section of a repetition whose workers were started, whatever the status (also
\* when FAIL with stop-on-fail ends the sweep).
C3_JoinMarker ==
    /\ (InRep /\ "JOIN" \in hist.written) => \A i \in DOMAIN procs : procs[i].w = "done"
    /\ ("START" \in hist.written /\ pc \notin {"start", "join", "joinall", "joined", "mark"})
          => "JOIN" \in hist.written
    /\ pc \in {"classify", "cleanup"} => OutPath(run_name, "JOIN") \in sentinels
    /\ Classified => "JOIN" \in hist.written

C3_Witness ==
    /\ pc = "aborted" /\ args.stop_on_fail
    /\ hist.written = {"START", "JOIN", "FAIL"}

\* an aligner command that did not end with exit code 0
CommandFailed(i) == (procs[i].c = "exited" /\ procs[i].plan # 0) \/ procs[i].c = "none"

\* C4: the status is TIME_OUT if a command is TIMED_OUT; otherwise FAIL exactly when
\* some aligner command exited non-zero, SUCCEED exactly when all exited with 0.
C4_Classification ==
    Classified =>
        IF \E k \in DOMAIN exitlevels : exitlevels[k] = None
        THEN hist.written \cap Statuses = {"TIME_OUT"}
        ELSE IF \E i \in DOMAIN procs : CommandFailed(i)
             THEN hist.written \cap Statuses = {"FAIL"}
             ELSE hist.written \cap Statuses = {"SUCCEED"}

\* C5: the outcome list has one outcome per command, and every command whose child
\* was terminated through the flag has the outcome TIMED_OUT.
C5_KilledIsTimedOut ==
    pc \in {"joined", "mark", "classify", "cleanup"} =>
        /\ Len(exitlevels) = Len(procs)
        /\ \A i \in DOMAIN procs :
              (procs[i].sig /\ procs[i].c \in {"signaled", "dead"}) => exitlevels[i] = None

\* the pair the controller is about to process is not divisible
SkipPending ==
    /\ pc = "pair" /\ ci <= Len(configs)
    /\ configs[ci].mp_mt > 0 /\ series[si] % configs[ci].mp_mt # 0

\* C6: a pair with threadsPerProcess > 0 that does not divide the thread count is
\* passed over: no read set is purged or prepared, no worker is started, no file is
\* written, no error ends the sweep, and the controller goes to the next entry.
C6_SkippedPairInert ==
    [][SkipPending =>
          /\ tmpfiles' = tmpfiles /\ read_set' = read_set
          /\ sentinels' = sentinels /\ outfiles' = outfiles
          /\ DOMAIN procs' = DOMAIN procs
          /\ \A i \in DOMAIN procs : procs'[i].w = procs[i].w
          /\ pc' = "pair" /\ si' = si /\ ci' \in {ci, ci + 1}
          /\ last_mp_mt' = last_mp_mt /\ last_blocked' = last_blocked]_vars

\* a pair is being run right after a pair that was passed over
C6_Witness ==
    /\ pc = "classify" /\ ci > 1
    /\ configs[ci - 1].mp_mt > 0 /\ series[si] % configs[ci - 1].mp_mt # 0
    /\ sentinels # {}

\* C7: a pair that is run has 2 repetitions if the index was verified or the reads
\* were prepared while processing it, and 1 otherwise.
C7_RepetitionCount ==
    (pc = "setup" \/ InRep) =>
        redo = IF hist.verifiedHere \/ hist.preparedHere THEN 2 ELSE 1

C7_Witness ==
    /\ pc = "classify" /\ redo = 1 /\ ~hist.preparedHere
    /\ \E s \in sentinels : s[5] = 2

\* C8, as the spec states it: the warm-up repetition leaves no sentinel file.
C8_WarmupLeavesNoSentinel == \A s \in sentinels : s[5] = 1

\* C8, amended: in the warm-up repetition every worker's stdout, stderr and
\* alignment output goes to the discard sink, so worker output files carry the
\* final repetition's index only; every repetition, the warm-up included, writes
\* JOIN and one status sentinel under its own run name.
C8_WarmupDiscardsOutput ==
    /\ \A f \in outfiles : f[6] \in {"out", "err", "sam"} => f[5] = 1
    /\ (InRep /\ idx_rev = 2) =>
          \A i \in DOMAIN procs :
             sinks.stdout[i] = DevNull /\ sinks.stderr[i] = DevNull /\ sinks.sam[i] = DevNull
    /\ pc = "cleanup" =>
          /\ OutPath(run_name, "JOIN") \in sentinels
          /\ \E st \in Statuses : OutPath(run_name, st) \in sentinels

C8_Witness ==
    /\ pc = "cleanup" /\ idx_rev = 2
    /\ \A i \in DOMAIN procs : procs[i].c = "exited"
    /\ OutPath(run_name, "JOIN") \in sentinels
    /\ outfiles = {OutPath(run_name, "iostat"), OutPath(run_name, "top")}

\* C9: when the (threadsPerProcess, blocked) pair of a step that is run differs from
\* that of the previous one, the reads are prepared again, and no file of an earlier
\* read set is left when the Partitioner starts; after a sweep that runs to its end
\* no read-set file is left.
C9_ReadSetsPurged ==
    /\ ((pc = "setup" \/ InRep) /\ hist.changed) => hist.preparedHere
    /\ pc = "prepare" => tmpfiles = {}
    /\ pc = "done" => tmpfiles = {}

C9_Witness ==
    /\ pc = "setup" /\ ci > 1 /\ hist.changed /\ hist.preparedHere
    /\ args.m2 /\ Cardinality(tmpfiles) = 2

\* entries i, i+1, i+2 of the catalog are A, B, C of the lineage: one tool and
\* branch, the flags of A and B equal and those of C different, each of the three
\* in need of a fresh build
Lineage ==
    /\ Len(configs) = 3 /\ Len(rlog) = 3
    /\ same_build(configs[2], LastOf(configs[1]))
    /\ same_source(configs[3], LastOf(configs[2])) /\ configs[3].preproc # configs[2].preproc
    /\ \A i \in 1..3 : rlog[i].act \in {"link", "copy", "fetch"}

\* C10: in the lineage A, B, C, B's artifact is a symbolic link to A's and no build
\* tool runs for B; C's artifact is a copy of the previous artifact, rebuilt; neither
\* B nor C is fetched from the repository.
C10_ResolverLineage ==
    (pc = "series" /\ Lineage) =>
        /\ bdirs["B"].kind = "link" /\ bdirs["B"].target = "A"
        /\ rlog[2].act = "link" /\ ~rlog[2].made /\ ~rlog[2].fetched
        /\ rlog[3].act = "copy" /\ rlog[3].made /\ ~rlog[3].fetched
        /\ bdirs["C"].kind = "dir" /\ bdirs["C"].exe = configs[3].preproc

\* C11: if the index file set of the tool is incomplete, the sweep ends at the first
\* index verification: no read set is prepared, no worker is created, no sentinel or
\* other output file is written, and the sweep does not run to its end.
C11_IndexFailureAborts ==
    (\E i \in DOMAIN configs : ~verify_index(index_files, configs[i].tool)) =>
        /\ read_set = <<>> /\ tmpfiles = {}
        /\ procs = NoProcs /\ sentinels = {} /\ outfiles = {}
        /\ pc \notin {"prepare", "setup", "final", "done"} /\ ~InRep

\* C12: without stop-on-fail no FAIL or TIME_OUT outcome ends the sweep: after the
\* status sentinel the controller goes on to the next repetition or pair.  With
\* stop-on-fail a FAIL outcome ends the sweep, with the JOIN and FAIL sentinels of
\* that repetition written.
C12_OutcomeAborts ==
    [][/\ (pc \in {"classify", "cleanup"} /\ ~args.stop_on_fail) => pc' # "aborted"
       /\ (pc = "cleanup" /\ pc' # pc /\ ~args.stop_on_fail) => (pc' = "setup" /\ idx' = idx + 1)
       /\ (pc = "classify" /\ pc' # pc /\ args.stop_on_fail /\ status_of(exitlevels) = "FAIL") =>
             /\ pc' = "aborted"
             /\ {OutPath(run_name, "JOIN"), OutPath(run_name, "FAIL")} \subseteq sentinels'
       /\ (pc = "classify" /\ pc' # pc /\ status_of(exitlevels) # "FAIL") => pc' = "cleanup"]_vars

\* the reads in the files of one read set (4 lines a read, mate 1 counts)
ReadsOf(rs) == wcl(flines, rs[1]) \div 4

RECURSIVE SumReads(_, _)
SumReads(rs, k) == IF k = 0 THEN 0 ELSE ReadsOf(rs[k]) + SumReads(rs, k - 1)

\* the Partitioner has returned for a pair and line 362 has the process count
Prepared == pc = "setup" /\ hist.preparedHere

\* C13: for a pair that is not skipped the Partitioner returns processCount read
\* sets, 1 in the MT regime and threadCount / threadsPerProcess otherwise, with
\* processCount x threadsPerProcess = threadCount; an MP read set holds
\* readsPerThread x threadsPerProcess reads, and the read sets together hold
\* readsPerThread x threadCount reads.
C13_PartitionCounts ==
    Prepared =>
        /\ Len(read_set) = nprocess
        /\ nprocess = IF Entry.mp_mt = 0 THEN 1 ELSE nthreads \div Entry.mp_mt
        /\ Entry.mp_mt > 0 => nprocess * Entry.mp_mt = nthreads
        /\ Entry.mp_mt > 0 =>
              \A i \in DOMAIN read_set : \A j \in DOMAIN read_set[i] :
                 wcl(flines, read_set[i][j]) = 4 * args.reads_per_thread * Entry.mp_mt
        /\ SumReads(read_set, Len(read_set)) = args.reads_per_thread * nthreads

C13_Witness ==
    /\ Prepared /\ Entry.mp_mt = 2 /\ nthreads = 4 /\ args.reads_per_thread = 2 /\ args.m2
    /\ Len(read_set) = 2 /\ ReadsOf(read_set[2]) = 4

\* C19: when prepare returns in the MP/MP+MT regime, the suffixed files of each
\* supplied mate are exactly those of the processCount labels, each of
\* 4 x readsPerProcess lines; with a file missing, a wrong line count or a suffixed
\* file too many, for either mate, prepare does not return.
C19_PreparePostconditions ==
    (Prepared /\ Entry.mp_mt > 0) =>
        \A m \in Mates :
           /\ {f \in tmpfiles : f.mate = m /\ f.lab # FqLabel}
                 = {ReadFile(Entry.name, m, slice_lab(i)) : i \in 0..(nprocess - 1)}
           /\ \A i \in 0..(nprocess - 1) :
                 wcl(flines, ReadFile(Entry.name, m, slice_lab(i)))
                    = 4 * nreads_per_process(args.reads_per_thread, nthreads, nprocess)

\* C14: when the sweep ends early after a read set was prepared (stop-on-fail, or
\* an error in a later pair), no file of the active read set is left.
C14_PurgedOnEarlyEnd ==
    pc = "aborted" => read_set_files(read_set) \cap tmpfiles = {}

\* C15: with --dry-run the sweep only generates the worker commands: no worker
\* process is started for any pair, and so no aligner is run.
C15_DryRunStartsNothing ==
    args.dry_run =>
        /\ "START" \notin hist.written
        /\ \A i \in DOMAIN procs : procs[i].w = "new" /\ procs[i].c = "none"

\* C16: in every repetition the telemetry side-processes are started before any
\* worker, every worker of the group is started before the first join begins, the
\* telemetry is killed only when all workers have been joined, and the JOIN marker
\* is recorded after that.
C16_EventOrder ==
    /\ (InRep /\ \E i \in DOMAIN procs : procs[i].w # "new") =>
          (telemetry \/ pc \in {"mark", "classify", "cleanup"})
    /\ pc \in {"start", "join", "joinall", "joined"} => telemetry
    /\ (pc \in {"join", "joinall"} \/ (InRep /\ exitlevels # <<>>)) =>
          \A i \in DOMAIN procs : procs[i].w # "new"
    /\ (InRep /\ ~telemetry) =>
          /\ Len(exitlevels) = Len(procs)
          /\ \A i \in DOMAIN procs : procs[i].w = "done"
    /\ (InRep /\ "JOIN" \in hist.written) => (~telemetry /\ pc \in {"classify", "cleanup"})
    /\ pc = "mark" => "JOIN" \notin hist.written

C16_Witness ==
    /\ pc = "mark" /\ ~telemetry /\ Len(procs) = 2 /\ Len(exitlevels) = 2
    /\ hist.written = {"START"}

\* C17: when the controller has recorded JOIN for a repetition and goes on, no
\* aligner child of that repetition is still running, the children that were sent
\* the termination signal included.
C17_NoChildAtJoin ==
    (pc \in {"classify", "cleanup"} /\ "JOIN" \in hist.written) =>
        \A i \in DOMAIN procs : procs[i].c \in {"none", "exited", "dead"}

\* C18: when the build tool has returned non-zero for a catalog entry, the program
\* has ended in the resolve phase at that entry: no later entry is resolved, no
\* read set is prepared, no worker is created and no sentinel is written.
C18_MakeFailureAborts ==
    hist.makeFailed =>
        /\ pc = "aborted"
        /\ ri <= Len(configs) /\ Len(rlog) = ri /\ rlog[ri].made
        /\ read_set = <<>> /\ tmpfiles = {}
        /\ procs = NoProcs /\ sentinels = {} /\ outfiles = {}

\* the build of the second entry failed, after the first entry was built
C18_Witness ==
    /\ hist.makeFailed /\ pc = "aborted" /\ ri = 2
    /\ rlog[1].made /\ rlog[2].act = "copy"
    /\ ~has_exe(bdirs, "B") /\ bdirs["C"] = MissingDir

\* the resolver is at an entry whose artifact directory exists, without --force
ExistingEntry == Resolving /\ path_exists(bdirs, REntry.name) /\ ~args.force_builds

\* C20: for an entry whose artifact directory exists, without force-rebuild: if
\* the update option is off the resolver changes nothing on disk for it (no fetch,
\* pull, link, copy, delete or build), whatever the previous entry was; if it is on,
\* the resolver pulls into the existing working copy and runs the build there, and
\* makes no link, copy or fetch.
C20_ExistingKept ==
    [][ExistingEntry =>
          IF args.pull
          THEN \/ bdirs' = bdirs /\ rlog' = rlog /\ pc' = "aborted"
               \/ /\ rlog' = Append(rlog, [name |-> REntry.name, act |-> "pull",
                                           made |-> TRUE, fetched |-> FALSE])
                  /\ \A n \in DOMAIN bdirs :
                        /\ bdirs'[n].kind = bdirs[n].kind /\ bdirs'[n].target = bdirs[n].target
                        /\ bdirs'[n].src = bdirs[n].src
                        /\ n # real_dir(bdirs, REntry.name) => bdirs'[n] = bdirs[n]
                  /\ pc' = "resolve" => bdirs'[real_dir(bdirs, REntry.name)].exe = REntry.preproc
          ELSE /\ bdirs' = bdirs
               /\ \/ rlog' = rlog /\ pc' = "aborted"
                  \/ /\ rlog' = Append(rlog, [name |-> REntry.name, act |-> "keep",
                                              made |-> FALSE, fetched |-> FALSE])
                     /\ ri' = ri + 1 /\ pc' = "resolve"]_vars

\* B was kept as it was although A, built just before it, has the same tool,
\* branch and flags
C20_Witness ==
    /\ pc = "series" /\ ~args.pull /\ Len(rlog) = 3
    /\ rlog[1].act = "fetch" /\ rlog[2].act = "keep"
    /\ same_build(configs[2], LastOf(configs[1]))
    /\ bdirs["B"].kind = "dir" /\ bdirs["B"].exe = ""

\* the action the catalog calls for at entry i when it needs a fresh build, from
\* the entry just before it (the first entry has none: no branch, no flags)
ExpectedReuse(i) ==
    LET pb == IF i = 1 THEN "" ELSE configs[i - 1].branch
        pf == IF i = 1 THEN "" ELSE configs[i - 1].preproc
        pt == IF i = 1 THEN configs[1].tool ELSE configs[i - 1].tool
    IN  IF configs[i].tool = pt /\ configs[i].branch = pb /\ configs[i].preproc = pf
        THEN "link"
        ELSE IF configs[i].tool = pt /\ configs[i].branch = pb THEN "copy" ELSE "fetch"

\* C21: an entry that needs a fresh build is linked iff its tool, branch and flags
\* equal those of the entry just before it, copied and rebuilt iff tool and branch
\* are equal and the flags differ, and fetched and built otherwise, whatever the
\* earlier entries are; every entry gets one action, and a linked entry's directory
\* is a link to the previous entry's.
C21_ReuseAgainstPrevious ==
    /\ Len(rlog) <= Len(configs)
    /\ pc = "resolve" => Len(rlog) = ri - 1
    /\ \A i \in DOMAIN rlog :
          /\ rlog[i].name = configs[i].name
          /\ rlog[i].act \in {"link", "copy", "fetch"} => rlog[i].act = ExpectedReuse(i)
          /\ rlog[i].act = "link" =>
                (bdirs[configs[i].name].kind = "link"
                 /\ bdirs[configs[i].name].target = configs[i - 1].name)
          /\ rlog[i].fetched = (rlog[i].act = "fetch")
          /\ rlog[i].act \in {"link", "keep"} => ~rlog[i].made

\* C is fetched although A, two entries before it, has its tool, branch and flags
C21_Witness ==
    /\ pc = "series" /\ Len(rlog) = 3
    /\ rlog[1].act = "fetch" /\ rlog[2].act = "fetch" /\ rlog[3].act = "fetch"
    /\ configs[3].tool = configs[1].tool /\ configs[3].branch = configs[1].branch
    /\ configs[3].preproc = configs[1].preproc

\* C22: for every 0 <= i < 26^3 slice_lab(i) returns a label of exactly three
\* letters whose digits are those of i in base 26, most significant first, padded
\* with 'a'; so distinct indices have distinct labels, in the order of the indices,
\* as the suffixes of split are.
C22_SliceLabel ==
    /\ sl.at # "raised"
    /\ sl.at = "done" =>
          /\ Len(sl.ret) = 3
          /\ \A k \in 1..3 : sl.ret[k] \in 0..25
          /\ sl.ret[1] * 26 * 26 + sl.ret[2] * 26 + sl.ret[3] = sl.arg

\* C23: every repetition whose workers are being started goes on to record its
\* JOIN marker, also when a child would never exit by itself: the join phase
\* ends.
C23_RepetitionEnds == (pc = "start") ~> (pc = "classify" /\ "JOIN" \in hist.written)

\* JOIN is recorded for a group one of whose children never exits by itself
C23_Witness ==
    /\ pc = "classify" /\ "JOIN" \in hist.written /\ Len(procs) = 2
    /\ procs[1].c = "exited" /\ procs[2].cend = Never /\ procs[2].sig

\* C24: whenever the controller builds the worker commands of a pair, the active
\* read set is the one the Partitioner made for the current thread count, threads
\* per process and blocked input, it has processCount entries, and its files
\* exist; whatever pairs came before (skipped pairs, other thread counts, a thread
\* count that is repeated in the series).
C24_ReadSetMatchesPair ==
    (pc = "setup" \/ InRep) =>
        /\ hist.preparedFor = <<nthreads, Entry.mp_mt, Entry.blocked>>
        /\ Len(read_set) = nprocess
        /\ \A i \in DOMAIN read_set : Len(read_set[i]) = Cardinality(Mates)
        /\ read_set_files(read_set) \subseteq tmpfiles

\* the third entry runs on the read set of the first, the second having been
\* skipped, at the second of two equal thread counts
C24_Witness ==
    /\ pc = "setup" /\ idx = 0 /\ series = <<1, 1>> /\ si = 2
    /\ Len(configs) = 3 /\ ci = 3 /\ ~hist.preparedHere
    /\ read_set_files(read_set) = {ReadFile("A", 1, FqLabel)}

\* C25: at the end of a sweep that began with an empty output directory no run
\* name has more than one of the status sentinels SUCCEED, FAIL and TIME_OUT.
C25_OneStatusPerRunName ==
    pc = "done" =>
        \A s1 \in sentinels, s2 \in sentinels :
           (OutPath(s1, "") = OutPath(s2, "") /\ s1[6] \in Statuses /\ s2[6] \in Statuses)
              => s1 = s2

====
